---- MODULE Spec2Model ----
(***************************************************************************)
(* mktcmenu: the EEPROM map allocator (EEPROMMap), the identifier          *)
(* derivation (generate_id), the storage lookup of a menu entry            *)
(* (find_or_allocate_eeprom_space) and the code generation traversal       *)
(* (emit_code / do_codegen / __main__) of src/mktcmenu.py.                 *)
(*                                                                         *)
(* Text is a sequence of one-character strings.  One behaviour is a        *)
(* series of runs of the program over one descriptor, each run starting    *)
(* from the mapping file the previous run saved.                           *)
(***************************************************************************)
EXTENDS Integers, Sequences, FiniteSets, TLC

VARIABLES
    desc_items,      \* desc["items"]: the top-level menu entries
    mapfile,         \* the mapping file on disk: [exists, data]
    data,            \* EEPROMMap.data: key -> [offset, size]
    auto_index,      \* EEPROMMap._auto_index
    capacity,        \* EEPROMMap.capacity
    varstore_bar,    \* EEPROMMap.varstore_bar
    spare_segments,  \* EEPROMMap.spare_segments
    pc,              \* position of the run: load, emit, finish, save, done, failed
    call_index,      \* index of the next emit call of the traversal
    emitted,         \* the menu items written to the source buffer, in order
    ret,             \* value returned by the last find_or_allocate_eeprom_space
    err,             \* the exception that ended the run, or "ok"
    callback_list,   \* do_codegen's callback_list
    root,            \* symbol written into getRootMenuItem()
    run,             \* number of the current run
    prev_emitted,    \* what the previous run emitted
    MenuBaseType_auto_index,  \* the class attribute MenuBaseType.auto_index
    init_calls       \* the calls of MenuBaseType.__init__ of the run, in order

vars == <<desc_items, mapfile, data, auto_index, capacity, varstore_bar,
          spare_segments, pc, call_index, emitted, ret, err, callback_list,
          root, run, prev_emitted, MenuBaseType_auto_index, init_calls>>

\* Longest top-level item list of a descriptor.
MaxItems == 2
\* Number of runs of the program over the same descriptor.
MaxRuns == 2
\* Longest display name drawn from NameChars.
MaxLen == 3

----------------------------------------------------------------------------
\* Text helpers

Range(s) == {s[k] : k \in DOMAIN s}

RECURSIVE Join(_)
Join(words) ==
    IF words = <<>> THEN <<>> ELSE Head(words) \o Join(Tail(words))

LowerChars ==
    <<"a","b","c","d","e","f","g","h","i","j","k","l","m",
      "n","o","p","q","r","s","t","u","v","w","x","y","z">>

UpperChars ==
    <<"A","B","C","D","E","F","G","H","I","J","K","L","M",
      "N","O","P","Q","R","S","T","U","V","W","X","Y","Z">>

DigitChars == {"0","1","2","3","4","5","6","7","8","9"}

\* str.upper / str.lower, character by character
UpperOf ==
    [c \in Range(LowerChars) |->
       UpperChars[CHOOSE k \in DOMAIN LowerChars : LowerChars[k] = c]]

LowerOf ==
    [c \in Range(UpperChars) |->
       LowerChars[CHOOSE k \in DOMAIN UpperChars : UpperChars[k] = c]]

to_upper(c) == IF c \in DOMAIN UpperOf THEN UpperOf[c] ELSE c

to_lower(c) == IF c \in DOMAIN LowerOf THEN LowerOf[c] ELSE c

\* \w without the underscore: the letters and the digits
AlnumChars == Range(LowerChars) \cup Range(UpperChars) \cup DigitChars

\* RE_AUTOID_DELIM = [\W_]+ : a character that is not a letter or a digit
is_autoid_delim(c) == c \notin AlnumChars

RECURSIVE skip_delims(_)
skip_delims(s) ==
    IF s # <<>> /\ is_autoid_delim(Head(s)) THEN skip_delims(Tail(s)) ELSE s

\* RE_AUTOID_DELIM.split(name): the words between the runs of delimiters,
\* an empty word before a leading and after a trailing run
RECURSIVE re_split(_, _, _)
re_split(s, word, acc) ==
    IF s = <<>> THEN Append(acc, word)
    ELSE IF is_autoid_delim(Head(s))
         THEN re_split(skip_delims(s), <<>>, Append(acc, word))
         ELSE re_split(Tail(s), Append(word, Head(s)), acc)

\* str.capitalize(): first character upper-cased, the others lower-cased
capitalize(w) ==
    IF w = <<>> THEN <<>>
    ELSE <<to_upper(w[1])>> \o [k \in 1..(Len(w) - 1) |-> to_lower(w[k + 1])]

----------------------------------------------------------------------------
\* Menu entries

None == <<"None">>
NoCallback == "<None>"
NoNode == [type |-> "None"]

\* MenuBaseType.__init__ and the subclasses' own properties that the
\* allocator, the traversal and the callback registry read
MenuNode(type, name, id_, id_suffix, persistent, callback, items, mode, address) ==
    [type |-> type, name |-> name, id_ |-> id_, id_suffix |-> id_suffix,
     persistent |-> persistent, callback |-> callback, items |-> items,
     mode |-> mode, address |-> address]

serializable(type) ==
    type \in {"Analog", "LargeNumber", "Enum", "ScrollChoice", "Boolean"}

\* get_serialized_size raises ValueError for these
size_raises(type) == type \in {"Float", "SubMenu", "Action"}

get_serialized_size(type) ==
    CASE type = "Analog" -> 2
      [] type = "LargeNumber" -> 7
      [] type = "Enum" -> 2
      [] type = "ScrollChoice" -> 2
      [] type = "Boolean" -> 1
      [] OTHER -> 0

\* ''.join(w.capitalize() for w in words)
RECURSIVE capitalize_words(_)
capitalize_words(words) ==
    IF words = <<>> THEN <<>>
    ELSE capitalize(Head(words)) \o capitalize_words(Tail(words))

\* MenuBaseType.generate_id
generate_id(node) ==
    LET id_ == IF node.id_ # None THEN node.id_
               ELSE capitalize_words(re_split(node.name, <<>>, <<>>))
    IN id_ \o (IF node.id_suffix # None THEN node.id_suffix ELSE <<>>)

\* list_callbacks without the SubMenu's descent into its items
list_callbacks_own_only(node) ==
    (IF node.callback # NoCallback THEN {<<"on_change", node.callback>>} ELSE {})
    \cup (IF node.type = "ScrollChoice" /\ node.mode = "custom-renderfn"
          THEN {<<"on_render", node.address>>} ELSE {})

\* MenuBaseType.list_callbacks, ScrollChoiceType.list_callbacks and
\* SubMenuType.list_callbacks
RECURSIVE list_callbacks(_)
list_callbacks(node) ==
    LET base == IF node.callback # NoCallback
                THEN {<<"on_change", node.callback>>} ELSE {}
    IN CASE node.type = "ScrollChoice" ->
              base \cup (IF node.mode = "custom-renderfn"
                         THEN {<<"on_render", node.address>>} ELSE {})
         [] node.type = "SubMenu" ->
              base \cup UNION {list_callbacks(node.items[k]) : k \in DOMAIN node.items}
         [] OTHER -> base

----------------------------------------------------------------------------
\* EEPROMMap

ADDRESS_LIMIT == 65535
NO_STORAGE == 65535

RESERVED == <<"_","r","e","s","e","r","v","e","d">>

EmptyMap == [k \in {} |-> 0]

Remove(m, key) == [k \in (DOMAIN m) \ {key} |-> m[k]]

Put(m, key, value) == [k \in (DOMAIN m) \cup {key} |-> IF k = key THEN value ELSE m[k]]

\* EEPROMMap.__init__
EEPROMMap(cap, reserve) ==
    [data |-> Put(EmptyMap, RESERVED, [offset |-> 0, size |-> 2]),
     auto_index |-> 2,
     capacity |-> cap,
     varstore_bar |-> cap - reserve,
     spare_segments |-> EmptyMap]

Min(a, b) == IF a < b THEN a ELSE b

\* auto_allocate with the address space check made against the capacity
auto_allocate_capacity_limit(d, index, bar, cap, name, size) ==
    IF index >= cap \/ index + size > cap
    THEN [data |-> d, auto_index |-> index, ret |-> -1,
          err |-> "AddressSpaceExhausted"]
    ELSE IF index >= Min(bar, cap) \/ index + size >= Min(bar, cap)
    THEN [data |-> d, auto_index |-> index, ret |-> -1, err |-> "NoSpaceLeft"]
    ELSE [data |-> Put(d, name, [offset |-> index, size |-> size]),
          auto_index |-> index + size, ret |-> index, err |-> "ok"]

\* auto_allocate that does not advance _auto_index
auto_allocate_no_bump(d, index, bar, cap, name, size) ==
    IF index >= ADDRESS_LIMIT \/ index + size > ADDRESS_LIMIT
    THEN [data |-> d, auto_index |-> index, ret |-> -1,
          err |-> "AddressSpaceExhausted"]
    ELSE IF index >= Min(bar, cap) \/ index + size >= Min(bar, cap)
    THEN [data |-> d, auto_index |-> index, ret |-> -1, err |-> "NoSpaceLeft"]
    ELSE [data |-> Put(d, name, [offset |-> index, size |-> size]),
          auto_index |-> index, ret |-> index, err |-> "ok"]

\* EEPROMMap.auto_allocate on the map (d, index, bar, cap):
\* the new data and _auto_index, the offset returned and the exception raised
auto_allocate(d, index, bar, cap, name, size) ==
    LET max_space == Min(bar, cap)
        offset == index
    IN IF offset >= ADDRESS_LIMIT \/ offset + size > ADDRESS_LIMIT
       THEN [data |-> d, auto_index |-> index, ret |-> -1,
             err |-> "AddressSpaceExhausted"]
       ELSE IF offset >= max_space \/ offset + size >= max_space
       THEN [data |-> d, auto_index |-> index, ret |-> -1,
             err |-> "NoSpaceLeft"]
       ELSE [data |-> Put(d, name, [offset |-> offset, size |-> size]),
             auto_index |-> index + size, ret |-> offset, err |-> "ok"]

\* find_or_allocate_eeprom_space that on a size mismatch records the new size
\* at the stale offset
find_or_allocate_keeps_stale_offset(node, d, index, bar, cap) ==
    LET id_ == generate_id(node)
        size == get_serialized_size(node.type)
    IN IF serializable(node.type) /\ node.persistent /\ id_ \in DOMAIN d
       THEN [data |-> Put(d, id_, [offset |-> d[id_].offset, size |-> size]),
             auto_index |-> index, ret |-> d[id_].offset, err |-> "ok"]
       ELSE IF node.persistent
       THEN IF size_raises(node.type)
            THEN [data |-> d, auto_index |-> index, ret |-> -1,
                  err |-> "ValueError"]
            ELSE auto_allocate(d, index, bar, cap, id_, size)
       ELSE [data |-> d, auto_index |-> index, ret |-> NO_STORAGE, err |-> "ok"]

\* find_or_allocate_eeprom_space that looks a serializable node up in the map
\* without asking whether it is persistent
find_or_allocate_ignores_persistent(node, d, index, bar, cap) ==
    LET id_ == generate_id(node)
        size == get_serialized_size(node.type)
    IN IF serializable(node.type) /\ id_ \in DOMAIN d
       THEN IF d[id_].size = size
            THEN [data |-> d, auto_index |-> index, ret |-> d[id_].offset,
                  err |-> "ok"]
            ELSE auto_allocate(Remove(d, id_), index, bar, cap, id_, size)
       ELSE IF node.persistent
       THEN IF size_raises(node.type)
            THEN [data |-> d, auto_index |-> index, ret |-> -1,
                  err |-> "ValueError"]
            ELSE auto_allocate(d, index, bar, cap, id_, size)
       ELSE [data |-> d, auto_index |-> index, ret |-> NO_STORAGE, err |-> "ok"]

\* MenuBaseType.find_or_allocate_eeprom_space
find_or_allocate_eeprom_space(node, d, index, bar, cap) ==
    LET id_ == generate_id(node)
        size == get_serialized_size(node.type)
    IN IF serializable(node.type) /\ node.persistent /\ id_ \in DOMAIN d
       THEN IF d[id_].size = size
            THEN [data |-> d, auto_index |-> index, ret |-> d[id_].offset,
                  err |-> "ok"]
            ELSE auto_allocate(Remove(d, id_), index, bar, cap, id_, size)
       ELSE IF node.persistent
       THEN IF size_raises(node.type)
            THEN [data |-> d, auto_index |-> index, ret |-> -1,
                  err |-> "ValueError"]
            ELSE auto_allocate(d, index, bar, cap, id_, size)
       ELSE [data |-> d, auto_index |-> index, ret |-> NO_STORAGE, err |-> "ok"]

\* EEPROMMap.save: the mapping written to the file
save(m) ==
    LET base == [k \in {"capacity", "varstore-bar", "auto-index", "vars"} |->
                   CASE k = "capacity" -> m.capacity
                     [] k = "varstore-bar" -> m.varstore_bar
                     [] k = "auto-index" -> m.auto_index
                     [] OTHER -> m.data]
    IN IF Cardinality(DOMAIN m.spare_segments) # 0
       THEN [k \in (DOMAIN base) \cup {"spare-segments"} |->
               IF k = "spare-segments" THEN m.spare_segments ELSE base[k]]
       ELSE base

\* load that does not read varstore-bar and keeps the one of cls()
load_keeps_default_bar(f) ==
    [data |-> IF "vars" \in DOMAIN f THEN f["vars"] ELSE EEPROMMap(65535, 0).data,
     auto_index |-> f["auto-index"],
     capacity |-> f["capacity"],
     varstore_bar |-> EEPROMMap(65535, 0).varstore_bar,
     spare_segments |-> IF "spare-segments" \in DOMAIN f
                        THEN f["spare-segments"]
                        ELSE EEPROMMap(65535, 0).spare_segments]

\* EEPROMMap.load: cls() overwritten with what the file holds
load(f) ==
    LET obj == EEPROMMap(65535, 0)
    IN [data |-> IF "vars" \in DOMAIN f THEN f["vars"] ELSE obj.data,
        auto_index |-> f["auto-index"],
        capacity |-> f["capacity"],
        varstore_bar |-> f["varstore-bar"],
        spare_segments |-> IF "spare-segments" \in DOMAIN f
                           THEN f["spare-segments"] ELSE obj.spare_segments]

\* The EEPROMMap object of the running program
TheMap ==
    [data |-> data, auto_index |-> auto_index, capacity |-> capacity,
     varstore_bar |-> varstore_bar, spare_segments |-> spare_segments]

----------------------------------------------------------------------------
\* The traversal: the emit calls of emit_code in the order they are made

MENU == <<"m","e","n","u">>
BACK == <<"b","a","c","k">>

\* One call of emit_simple_static_menu_item / emit_simple_dynamic_menu_item
\* with its context (ctx.namespace, ctx.next_entry) and keyword arguments
EmitCall(call, node, namespace, next_entry, next_entry_namespace, name_prefix, role, path) ==
    [call |-> call, node |-> node, namespace |-> namespace,
     next_entry |-> next_entry, next_entry_namespace |-> next_entry_namespace,
     name_prefix |-> name_prefix, role |-> role, path |-> path]

RECURSIVE emit_code(_, _, _, _), emit_items(_, _, _, _)
\* <Type>.emit_code(ctx) for the entry at `path`
emit_code(node, namespace, next_entry, path) ==
    CASE node.type = "SubMenu" ->
           LET sub_namespace == Append(namespace, node)
               back == IF node.items = <<>>
                       THEN EmitCall("index_error", node, namespace, NoNode,
                                     sub_namespace, BACK, "back", path)
                       ELSE EmitCall("dynamic", node, namespace, node.items[1],
                                     sub_namespace, BACK, "back", path)
               own == EmitCall("static", node, namespace, next_entry,
                               namespace, <<>>, "own", path)
           IN emit_items(node.items, sub_namespace, path, 1) \o <<back, own>>
      [] node.type \in {"LargeNumber", "ScrollChoice"} ->
           <<EmitCall("dynamic", node, namespace, next_entry, namespace,
                      <<>>, "own", path)>>
      [] OTHER ->
           <<EmitCall("static", node, namespace, next_entry, namespace,
                      <<>>, "own", path)>>

\* the loop over a list of siblings, from the k-th on, with its lookahead
emit_items(items, namespace, path, k) ==
    IF k > Len(items) THEN <<>>
    ELSE emit_code(items[k], namespace,
                   IF Len(items) > k THEN items[k + 1] ELSE NoNode,
                   Append(path, k))
         \o emit_items(items, namespace, path, k + 1)

\* ns_id = ''.join(ns.generate_id() for ns in namespace)
ns_id(namespace) == Join([k \in DOMAIN namespace |-> generate_id(namespace[k])])

\* menu_name of the item a call defines
menu_name(c) == MENU \o c.name_prefix \o ns_id(c.namespace) \o generate_id(c.node)

\* next_name built without the namespace of the next entry
next_name_without_namespace(c) ==
    IF c.next_entry # NoNode THEN MENU \o generate_id(c.next_entry) ELSE None

\* next_name of the item a call defines; None stands for nullptr
next_name(c) ==
    IF c.next_entry # NoNode
    THEN MENU \o ns_id(c.next_entry_namespace) \o generate_id(c.next_entry)
    ELSE None

\* child reference that points at the first child instead of the back item
child_ref_first_child(c) ==
    IF c.node.type = "SubMenu" /\ c.role = "own" /\ c.node.items # <<>>
    THEN MENU \o ns_id(Append(c.namespace, c.node)) \o generate_id(c.node.items[1])
    ELSE None

\* The SubMenu's own entry refers to the back item emit_code has just defined
child_ref(c) ==
    IF c.node.type = "SubMenu" /\ c.role = "own"
    THEN menu_name(EmitCall("dynamic", c.node, c.namespace, NoNode,
                            Append(c.namespace, c.node), BACK, "back", c.path))
    ELSE None

\* ScrollChoiceType.emit_code reads ctx.eeprom_map.spare_segments[address]
reads_spare_segment(c) ==
    c.node.type = "ScrollChoice" /\ c.node.mode \in {"eeprom", "array-in-eeprom"}

\* callback_overlap_check of do_codegen: a name met twice raises
RECURSIVE callback_overlap(_, _)
callback_overlap(todo, seen) ==
    IF todo = {} THEN FALSE
    ELSE LET p == CHOOSE q \in todo : TRUE
         IN IF p[2] \in seen THEN TRUE
            ELSE callback_overlap(todo \ {p}, seen \cup {p[2]})

\* The emit calls of the run over desc["items"]
Calls == emit_items(desc_items, <<>>, <<>>, 1)

----------------------------------------------------------------------------
\* yaml_load(f) of the descriptor: the constructor calls it makes

\* __init__ that counts on the instance (self.auto_index += 1): the class
\* attribute stays what it was
MenuBaseType_init_counts_on_instance(node, counter) ==
    [_global_index |-> counter,
     auto_index |-> counter,
     err |-> IF node.name = None THEN "ValueError" ELSE "ok"]

\* MenuBaseType.__init__: the index is taken and the class attribute
\* incremented before the properties are validated; a missing 'name' (None
\* here) raises ValueError
MenuBaseType_init(node, counter) ==
    [_global_index |-> counter,
     auto_index |-> counter + 1,
     err |-> IF node.name = None THEN "ValueError" ELSE "ok"]

\* The entries of the lists of the SubMenus of `level`, in order. The list of
\* a SubMenu is filled after the constructor of the SubMenu has returned:
\* tcdesc_multi_constructor calls construct_mapping(node) without deep=True,
\* which leaves the sequence under 'items' to be constructed later.
RECURSIVE children_of(_)
children_of(level) ==
    IF level = <<>> THEN <<>>
    ELSE LET first == Head(level)
         IN [k \in DOMAIN first.node.items |->
               [node |-> first.node.items[k], path |-> Append(first.path, k)]]
            \o children_of(Tail(level))

\* The order in which tcdesc_multi_constructor is called for the entries: the
\* top-level list, then the lists one level down, and so on
RECURSIVE construction_order(_)
construction_order(level) ==
    IF level = <<>> THEN <<>>
    ELSE level \o construction_order(children_of(level))

\* The constructor calls from the k-th on; the first that raises ends the load
RECURSIVE construct_from(_, _, _, _)
construct_from(order, k, counter, calls) ==
    IF k > Len(order)
    THEN [init_calls |-> calls, auto_index |-> counter, err |-> "ok"]
    ELSE LET r == MenuBaseType_init(order[k].node, counter)
             call == [path |-> order[k].path,
                      _global_index |-> r._global_index,
                      valid |-> r.err = "ok"]
         IN IF r.err # "ok"
            THEN [init_calls |-> Append(calls, call),
                  auto_index |-> r.auto_index, err |-> r.err]
            ELSE construct_from(order, k + 1, r.auto_index, Append(calls, call))

\* desc = yaml_load(f)
yaml_load(items, counter) ==
    construct_from(
        construction_order([k \in DOMAIN items |->
                               [node |-> items[k], path |-> <<k>>]]),
        1, counter, <<>>)

----------------------------------------------------------------------------
\* The descriptors and mapping files the runs start from

N_Enable == <<"E","n","a","b","l","e">>
N_enable == <<"e","n","a","b","l","e">>
N_Reset == <<"R","e","s","e","t">>
N_Level == <<"L","e","v","e","l">>
N_Settings == <<"S","e","t","t","i","n","g","s">>
N_Outer == <<"O","u","t","e","r">>
N_big_num == <<"b","i","g"," ","n","u","m">>
N_Pick == <<"P","i","c","k">>
N_underscore == <<"_">>
N_my_ledCount == <<"m","y"," ","l","e","d","C","o","u","n","t">>
S_v2 == <<"_","v","2">>

Leaf(type, name, persistent, callback) ==
    MenuNode(type, name, None, None, persistent, callback, <<>>, "", "")

BoolEnable == Leaf("Boolean", N_Enable, TRUE, NoCallback)
ActionReset == Leaf("Action", N_Reset, FALSE, "foo")
AnalogEnable == Leaf("Analog", N_enable, TRUE, NoCallback)
AnalogReserved ==
    MenuNode("Analog", N_Level, RESERVED, None, TRUE, NoCallback, <<>>, "", "")
BoolReserved ==
    MenuNode("Boolean", N_underscore, None, RESERVED, TRUE, NoCallback, <<>>, "", "")
LargeBigNum == Leaf("LargeNumber", N_big_num, TRUE, "foo")
ScrollRender ==
    MenuNode("ScrollChoice", N_Pick, None, None, FALSE, NoCallback, <<>>,
             "custom-renderfn", "foo")
ScrollSegment ==
    MenuNode("ScrollChoice", N_Pick, None, None, TRUE, "foo", <<>>,
             "eeprom", "seg")
FloatLevel == Leaf("Float", N_Level, TRUE, NoCallback)
SubSettings ==
    MenuNode("SubMenu", N_Settings, None, None, FALSE, "bar",
             <<Leaf("Analog", N_Level, TRUE, NoCallback),
               Leaf("Boolean", N_Enable, FALSE, NoCallback),
               Leaf("Float", N_Reset, FALSE, "bar")>>, "", "")
SubOuter ==
    MenuNode("SubMenu", N_Outer, None, None, FALSE, NoCallback,
             <<MenuNode("SubMenu", N_Settings, None, None, FALSE, NoCallback,
                        <<MenuNode("ScrollChoice", N_Pick, None, None, FALSE,
                                   NoCallback, <<>>, "custom-renderfn", "bar"),
                          Leaf("Enum", N_Level, TRUE, NoCallback),
                          Leaf("Enum", N_Enable, FALSE, NoCallback)>>, "", ""),
               Leaf("LargeNumber", N_Enable, FALSE, NoCallback),
               Leaf("Analog", N_Reset, FALSE, NoCallback)>>, "", "")

\* Two SubMenus with a persistent entry of the same display name in each: of
\* the same serialized size, and of different sizes
SubLeft ==
    MenuNode("SubMenu", N_Settings, None, None, FALSE, NoCallback,
             <<Leaf("Analog", N_Level, TRUE, NoCallback)>>, "", "")
SubRightEnum ==
    MenuNode("SubMenu", N_Outer, None, None, FALSE, NoCallback,
             <<Leaf("Enum", N_Level, TRUE, NoCallback)>>, "", "")
SubRightBool ==
    MenuNode("SubMenu", N_Outer, None, None, FALSE, NoCallback,
             <<Leaf("Boolean", N_Level, TRUE, NoCallback)>>, "", "")

\* The top-level entries a descriptor is made of
Templates ==
    {BoolEnable, ActionReset, AnalogEnable, AnalogReserved, BoolReserved,
     LargeBigNum, ScrollRender, ScrollSegment, FloatLevel, SubSettings,
     SubOuter}

Descriptors == UNION {[1..n -> Templates] : n \in 1..MaxItems}

\* Display names: every text of up to MaxLen characters out of a lower-case
\* letter, an upper-case letter, a digit, a space and an underscore
NameChars == {"a", "B", "1", " ", "_"}

Names == UNION {[1..n -> NameChars] : n \in 1..MaxLen}

\* One persistent Boolean under each name, and 'my ledCount' with and without
\* an id override and an id-suffix
NameDescriptors ==
    {<<Leaf("Boolean", name, TRUE, NoCallback)>> : name \in Names}
    \cup {<<MenuNode("Boolean", N_my_ledCount, id_, id_suffix, TRUE, NoCallback,
                     <<>>, "", "")>> :
             id_ \in {None, N_enable}, id_suffix \in {None, S_v2}}

\* Entries without the required property 'name'
NoName == Leaf("Boolean", None, FALSE, NoCallback)
SubNoNameChild ==
    MenuNode("SubMenu", N_Settings, None, None, FALSE, NoCallback,
             <<Leaf("Analog", N_Level, TRUE, NoCallback),
               Leaf("Enum", None, FALSE, NoCallback),
               Leaf("Boolean", N_Enable, FALSE, NoCallback)>>, "", "")
SubNoName ==
    MenuNode("SubMenu", None, None, None, FALSE, NoCallback,
             <<Leaf("Analog", N_Level, TRUE, NoCallback)>>, "", "")

\* Descriptors that fail validation: in the first entry, after valid entries,
\* in a SubMenu and in an entry of a SubMenu
InvalidDescriptors ==
    {<<NoName>>, <<BoolEnable, NoName, ActionReset>>, <<SubNoName, BoolEnable>>,
     <<SubNoNameChild, BoolEnable>>, <<SubOuter, SubNoNameChild>>}

\* Descriptors with the same display name in two different SubMenus
NestedDescriptors == {<<SubLeft, SubRightEnum>>, <<SubLeft, SubRightBool>>}

\* --eeprom-capacity of a first run, when there is no mapping file yet
Capacities == {4, 12, 65535}

\* A map with one entry, as left by earlier runs that moved `key` (of size 1)
\* up to the end of the allocated range
MovedUp(cap, reserve, index, key) ==
    [EEPROMMap(cap, reserve) EXCEPT
       !.data = Put(@, key, [offset |-> index - 1, size |-> 1]),
       !.auto_index = index]

\* Mapping files found by a first run: saved by EEPROMMap(capacity, reserve),
\* one with a spare segment added, and maps filled up to the address limit
MapFiles ==
    {save(EEPROMMap(8, 2)),
     save([EEPROMMap(65535, 0) EXCEPT !.spare_segments = Put(EmptyMap, "seg", 1024)])}
    \cup {save(MovedUp(65535, 0, index, generate_id(BoolEnable))) :
            index \in {65526, 65533, 65534}}

\* __main__: load the mapping file if there is one, else a new map
start_map(file, eeprom_capacity) ==
    IF file.exists THEN load(file.data) ELSE EEPROMMap(eeprom_capacity, 0)

NoFile == [exists |-> FALSE, data |-> EmptyMap]

StartFiles == {NoFile} \cup {[exists |-> TRUE, data |-> f] : f \in MapFiles}

----------------------------------------------------------------------------
\* The runs

Init ==
    /\ desc_items \in Descriptors \cup NestedDescriptors \cup NameDescriptors
                        \cup InvalidDescriptors
    /\ mapfile \in StartFiles
    /\ (desc_items \in NameDescriptors => ~mapfile.exists)
    /\ \E eeprom_capacity \in Capacities :
         /\ (mapfile.exists => eeprom_capacity = 65535)
         /\ (desc_items \in NameDescriptors => eeprom_capacity = 65535)
         /\ LET m == start_map(mapfile, eeprom_capacity)
            IN /\ data = m.data
               /\ auto_index = m.auto_index
               /\ capacity = m.capacity
               /\ varstore_bar = m.varstore_bar
               /\ spare_segments = m.spare_segments
    /\ pc = "load"
    /\ call_index = 1
    /\ emitted = <<>>
    /\ ret = -1
    /\ err = "ok"
    /\ callback_list = {}
    /\ root = None
    /\ run = 1
    /\ prev_emitted = <<>>
    /\ MenuBaseType_auto_index = 1
    /\ init_calls = <<>>

\* do_codegen: desc = yaml_load(f); a constructor that raises ends the run
Load ==
    /\ pc = "load"
    /\ LET r == yaml_load(desc_items, MenuBaseType_auto_index)
       IN /\ init_calls' = r.init_calls
          /\ MenuBaseType_auto_index' = r.auto_index
          /\ IF r.err = "ok"
             THEN pc' = "emit" /\ UNCHANGED err
             ELSE pc' = "failed" /\ err' = r.err
    /\ UNCHANGED <<desc_items, mapfile, data, auto_index, capacity,
                   varstore_bar, spare_segments, call_index, emitted, ret,
                   callback_list, root, run, prev_emitted>>

\* item.emit_code(ctx), one emit_simple_*_menu_item call at a time; after the
\* last call of a top-level item, callback_list.update(item.list_callbacks())
Emit ==
    /\ pc = "emit"
    /\ LET calls == Calls
           c == calls[call_index]
           r == find_or_allocate_eeprom_space(c.node, data, auto_index,
                                              varstore_bar, capacity)
           raised == IF c.call = "index_error" THEN "IndexError"
                     ELSE IF reads_spare_segment(c)
                             /\ c.node.address \notin DOMAIN spare_segments
                     THEN "KeyError"
                     ELSE r.err
       IN IF raised \in {"IndexError", "KeyError"}
          THEN /\ pc' = "failed"
               /\ err' = raised
               /\ UNCHANGED <<data, auto_index, call_index, emitted, ret,
                              callback_list>>
          ELSE /\ data' = r.data
               /\ auto_index' = r.auto_index
               /\ IF raised # "ok"
                  THEN /\ pc' = "failed"
                       /\ err' = raised
                       /\ UNCHANGED <<call_index, emitted, ret, callback_list>>
                  ELSE /\ ret' = r.ret
                       /\ emitted' = Append(emitted,
                              [menu_name |-> menu_name(c),
                               next_name |-> next_name(c),
                               child |-> child_ref(c),
                               eeprom_offset |-> r.ret,
                               path |-> c.path,
                               role |-> c.role])
                       /\ callback_list' =
                              IF Len(c.path) = 1 /\ c.role = "own"
                              THEN callback_list \cup list_callbacks(c.node)
                              ELSE callback_list
                       /\ call_index' = call_index + 1
                       /\ pc' = IF call_index = Len(calls) THEN "finish" ELSE "emit"
                       /\ UNCHANGED err
    /\ UNCHANGED <<desc_items, mapfile, capacity, varstore_bar, spare_segments,
                   root, run, prev_emitted, MenuBaseType_auto_index, init_calls>>

\* do_codegen after the loop: getRootMenuItem, then the callback header
Finish ==
    /\ pc = "finish"
    /\ root' = MENU \o generate_id(desc_items[1])
    /\ IF callback_overlap(callback_list, {})
       THEN pc' = "failed" /\ err' = "CallbackConflict"
       ELSE pc' = "save" /\ UNCHANGED err
    /\ UNCHANGED <<desc_items, mapfile, data, auto_index, capacity,
                   varstore_bar, spare_segments, call_index, emitted, ret,
                   callback_list, run, prev_emitted, MenuBaseType_auto_index,
                   init_calls>>

\* __main__ after do_codegen returned: eeprom_map.save(f)
Save ==
    /\ pc = "save"
    /\ mapfile' = [exists |-> TRUE, data |-> save(TheMap)]
    /\ pc' = "done"
    /\ UNCHANGED <<desc_items, data, auto_index, capacity, varstore_bar,
                   spare_segments, call_index, emitted, ret, err,
                   callback_list, root, run, prev_emitted,
                   MenuBaseType_auto_index, init_calls>>

\* The program is run again on the same descriptor
Rerun ==
    /\ pc = "done"
    /\ run < MaxRuns
    /\ LET m == start_map(mapfile, 65535)
       IN /\ data' = m.data
          /\ auto_index' = m.auto_index
          /\ capacity' = m.capacity
          /\ varstore_bar' = m.varstore_bar
          /\ spare_segments' = m.spare_segments
    /\ pc' = "load"
    /\ MenuBaseType_auto_index' = 1
    /\ init_calls' = <<>>
    /\ call_index' = 1
    /\ emitted' = <<>>
    /\ prev_emitted' = emitted
    /\ ret' = -1
    /\ callback_list' = {}
    /\ root' = None
    /\ run' = run + 1
    /\ UNCHANGED <<desc_items, mapfile, err>>

Next == Load \/ Emit \/ Finish \/ Save \/ Rerun

Spec == Init /\ [][Next]_vars

----------------------------------------------------------------------------
\* What the claims speak of

\* The call the next Emit step makes, and the last call that returned
CurCall == Calls[call_index]
LastCall == Calls[call_index - 1]

\* The step reaches find_or_allocate_eeprom_space (nothing raised before it)
CallsFindOrAllocate(c) ==
    /\ c.call # "index_error"
    /\ ~(reads_spare_segment(c) /\ c.node.address \notin DOMAIN spare_segments)

PersistentSerializable(node) == node.persistent /\ serializable(node.type)

\* The key of the node is in the map with another size than the node's
SizeMismatch(node) ==
    /\ generate_id(node) \in DOMAIN data
    /\ data[generate_id(node)].size # get_serialized_size(node.type)

\* The step reaches auto_allocate
CallsAutoAllocate(c) ==
    /\ CallsFindOrAllocate(c)
    /\ PersistentSerializable(c.node)
    /\ (generate_id(c.node) \notin DOMAIN data \/ SizeMismatch(c.node))

\* Entries other than `key` are what they were
OthersKept(key) ==
    /\ (DOMAIN data') \ {key} = (DOMAIN data) \ {key}
    /\ \A k \in (DOMAIN data) \ {key} : data'[k] = data[k]

----------------------------------------------------------------------------
\* C1

\* A second call for the node of the call that has just returned gives the
\* same offset and changes neither the mapping nor the cursor
C1_TwiceInARow ==
    (pc # "failed" /\ call_index > 1 /\ PersistentSerializable(LastCall.node)) =>
        LET r == find_or_allocate_eeprom_space(LastCall.node, data, auto_index,
                                               varstore_bar, capacity)
        IN r.err = "ok" /\ r.ret = ret /\ r.data = data /\ r.auto_index = auto_index

\* In a run over the map the previous run saved, every persistent node gets
\* the offset it had in the previous run
C1_Recompile ==
    run > 1 =>
        \A k \in DOMAIN emitted :
            PersistentSerializable(Calls[k].node) =>
                emitted[k].eeprom_offset = prev_emitted[k].eeprom_offset

\* C1: Stability. Calling find_or_allocate_eeprom_space twice in a row with
\* an unchanged size returns the same offset and the second call changes
\* nothing, and recompiling the unchanged descriptor against the saved map
\* gives every persistent node the offset of the previous run.
C1_Stability == C1_TwiceInARow /\ C1_Recompile

----------------------------------------------------------------------------
\* C2

C2_Step ==
    (pc = "emit" /\ CallsFindOrAllocate(CurCall)
       /\ PersistentSerializable(CurCall.node) /\ SizeMismatch(CurCall.node)
       /\ pc' # "failed") =>
        LET id_ == generate_id(CurCall.node)
            size == get_serialized_size(CurCall.node.type)
        IN /\ id_ \in DOMAIN data'
           /\ data'[id_] = [offset |-> auto_index, size |-> size]
           /\ data'[id_] # data[id_]
           /\ ret' = auto_index
           /\ ret' # data[id_].offset
           /\ auto_index' = auto_index + size
           /\ OthersKept(id_)

\* C2: Size-change reallocation. A call that returns for a persistent
\* serializable node whose key is recorded with another size removes the
\* stale entry, allocates the new size at the cursor, returns an offset
\* other than the stale one, and leaves the key recorded with the new offset
\* and the new size.
C2_SizeChangeReallocates == [][C2_Step]_vars

\* Two persistent entries of one key and of different sizes were emitted in
\* this run, the second of them last: it was moved to a new offset
C2_Witness ==
    /\ pc # "failed"
    /\ call_index > 2
    /\ PersistentSerializable(LastCall.node)
    /\ \E j \in 1..(call_index - 2) :
         /\ PersistentSerializable(Calls[j].node)
         /\ generate_id(Calls[j].node) = generate_id(LastCall.node)
         /\ get_serialized_size(Calls[j].node.type)
              # get_serialized_size(LastCall.node.type)
         /\ emitted[j].eeprom_offset # ret
    /\ data[generate_id(LastCall.node)] =
         [offset |-> ret, size |-> get_serialized_size(LastCall.node.type)]

----------------------------------------------------------------------------
\* C3

C3_Step ==
    (pc = "emit" /\ CallsAutoAllocate(CurCall)
       /\ auto_index + get_serialized_size(CurCall.node.type) = varstore_bar
       /\ varstore_bar <= capacity /\ capacity <= 65535) =>
        LET id_ == generate_id(CurCall.node)
            size == get_serialized_size(CurCall.node.type)
        IN /\ pc' # "failed"
           /\ ret' = auto_index
           /\ auto_index' = auto_index + size
           /\ id_ \in DOMAIN data'
           /\ data'[id_] = [offset |-> auto_index, size |-> size]

\* C3: Exact-fit boundary. auto_allocate with cursor + size equal to the
\* reserve boundary succeeds, returns the cursor as offset, advances the
\* cursor by size and adds the key to the mapping.
C3_ExactFitSucceeds == [][C3_Step]_vars

----------------------------------------------------------------------------
\* C4

\* A failing auto_allocate allocates nothing: the cursor stays and the
\* mapping gains no entry
NothingAllocated ==
    /\ auto_index' = auto_index
    /\ generate_id(CurCall.node) \notin DOMAIN data'
    /\ OthersKept(generate_id(CurCall.node))

C4_OriginalStep ==
    (pc = "emit" /\ CallsAutoAllocate(CurCall)) =>
        LET end == auto_index + get_serialized_size(CurCall.node.type)
        IN /\ (end > varstore_bar /\ end <= capacity) =>
                (pc' = "failed" /\ err' = "NoSpaceLeft" /\ NothingAllocated)
           /\ (end > varstore_bar /\ end > capacity) =>
                (pc' = "failed" /\ err' = "AddressSpaceExhausted" /\ NothingAllocated)

\* C4 as claimed: 'No space left' when cursor + size exceeds the reserve
\* boundary but not the capacity, 'address space exhausted' when it also
\* exceeds the configured capacity, whatever the capacity; nothing is
\* allocated in either case.
C4_ExhaustedAboveCapacity == [][C4_OriginalStep]_vars

C4_AmendedStep ==
    (pc = "emit" /\ CallsAutoAllocate(CurCall)) =>
        LET end == auto_index + get_serialized_size(CurCall.node.type)
        IN /\ (end > varstore_bar /\ end <= ADDRESS_LIMIT) =>
                (pc' = "failed" /\ err' = "NoSpaceLeft" /\ NothingAllocated)
           /\ (end > ADDRESS_LIMIT) =>
                (pc' = "failed" /\ err' = "AddressSpaceExhausted" /\ NothingAllocated)

\* C4 amended: 'No space left' when cursor + size exceeds the reserve
\* boundary and is at most 65535, also when it exceeds a configured capacity
\* below 65535; 'address space exhausted' when cursor + size exceeds 65535,
\* whatever the configured capacity; nothing is allocated in either case.
C4_ExhaustedAboveAddressLimit == [][C4_AmendedStep]_vars

\* A run stopped by 'No space left' on an allocation that would have ended
\* above a capacity below 65535
C4_Witness ==
    /\ pc = "failed"
    /\ err = "NoSpaceLeft"
    /\ capacity < 65535
    /\ auto_index + get_serialized_size(CurCall.node.type) > capacity

\* A run stopped by 'address space exhausted'
C4_WitnessExhausted ==
    /\ pc = "failed"
    /\ err = "AddressSpaceExhausted"
    /\ auto_index + get_serialized_size(CurCall.node.type) > ADDRESS_LIMIT

----------------------------------------------------------------------------
\* C5

\* The entry __init__ puts in the map, the only one auto_allocate did not make
IsInitialReserved(k) == k = RESERVED /\ data[k] = [offset |-> 0, size |-> 2]

C5_Ranges ==
    /\ \A k \in DOMAIN data :
         /\ 0 <= data[k].offset
         /\ data[k].offset + data[k].size <= capacity
         /\ (~IsInitialReserved(k) =>
               data[k].offset + data[k].size <= varstore_bar)
    /\ \A k1, k2 \in DOMAIN data :
         k1 # k2 =>
            \/ data[k1].offset + data[k1].size <= data[k2].offset
            \/ data[k2].offset + data[k2].size <= data[k1].offset

----------------------------------------------------------------------------
\* C6

\* C6: Reserved slot. The mapping always holds '_reserved' at offset 0 with
\* size 2, and no menu node is given an offset inside bytes 0..1.
C6_ReservedSlot ==
    /\ RESERVED \in DOMAIN data
    /\ data[RESERVED] = [offset |-> 0, size |-> 2]
    /\ \A k \in DOMAIN emitted : emitted[k].eeprom_offset \notin {0, 1}

----------------------------------------------------------------------------
\* C7

C7_Step ==
    (pc = "emit" /\ CallsFindOrAllocate(CurCall) /\ ~CurCall.node.persistent) =>
        /\ pc' # "failed"
        /\ ret' = 65535
        /\ data' = data
        /\ auto_index' = auto_index
        /\ capacity' = capacity
        /\ varstore_bar' = varstore_bar
        /\ spare_segments' = spare_segments

\* C7: Non-persistent nodes. find_or_allocate_eeprom_space on a node that is
\* not persistent returns 0xFFFF and leaves the mapping, the cursor, the
\* capacity, the reserve boundary and the spare segments unchanged, whatever
\* the variant and whether or not the key is in the map.
C7_NonPersistentUntouched == [][C7_Step]_vars

\* The call that has just returned was for a non-persistent node of a
\* serializable variant whose key is in the map
C7_Witness ==
    /\ pc # "failed"
    /\ call_index > 1
    /\ ~LastCall.node.persistent
    /\ serializable(LastCall.node.type)
    /\ generate_id(LastCall.node) \in DOMAIN data
    /\ ret = 65535

----------------------------------------------------------------------------
\* C8

\* C8: Round-trip. load(save(m)) has the capacity, the reserve boundary, the
\* cursor, the mapping and the spare segments of m.
C8_RoundTrip ==
    LET m == load(save(TheMap))
    IN /\ m.capacity = capacity
       /\ m.varstore_bar = varstore_bar
       /\ m.auto_index = auto_index
       /\ m.data = data
       /\ m.spare_segments = spare_segments

\* A map without spare segments, with an entry that was removed and
\* allocated again, has been saved and loaded by the next run
C8_Witness ==
    /\ run > 1
    /\ DOMAIN spare_segments = {}
    /\ RESERVED \in DOMAIN data
    /\ data[RESERVED].offset # 0
    /\ mapfile.data = save(TheMap)

----------------------------------------------------------------------------
\* C9

\* The nodes of a list of entries, at any depth
RECURSIVE NodesOf(_)
NodesOf(items) ==
    UNION {{items[k]} \cup NodesOf(items[k].items) : k \in DOMAIN items}

OnChangeNames(nodes) ==
    {n.callback : n \in {x \in nodes : x.callback # NoCallback}}

OnRenderNames(nodes) ==
    {n.address : n \in {x \in nodes : x.type = "ScrollChoice"
                                       /\ x.mode = "custom-renderfn"}}

\* Some name is referenced as on_change and as on_render in the tree
TreeConflict ==
    OnChangeNames(NodesOf(desc_items)) \cap OnRenderNames(NodesOf(desc_items)) # {}

\* The traversal of the top-level items is over and the check has run
CallbacksChecked == call_index > Len(Calls) /\ pc # "finish"

\* C9: Callback conflict detection. Once the traversal has completed,
\* do_codegen fails with the callback conflict exactly when some callback
\* name is referenced under both event kinds anywhere in the tree; the
\* conflict is raised only after the traversal has completed.
C9_CallbackConflict ==
    /\ CallbacksChecked => (err = "CallbackConflict" <=> TreeConflict)
    /\ err = "CallbackConflict" => CallbacksChecked

\* A conflict between an on_change of a top-level SubMenu and an on_render
\* three levels down another one, the pair (on_change, bar) referenced twice
C9_Witness ==
    /\ err = "CallbackConflict"
    /\ desc_items = <<SubSettings, SubOuter>>

----------------------------------------------------------------------------
\* C10

RECURSIVE NodeAt(_, _)
NodeAt(items, path) ==
    IF Len(path) = 1 THEN items[path[1]]
    ELSE NodeAt(items[path[1]].items, Tail(path))

\* The list of siblings the entry at `path` is in
SiblingsAt(path) ==
    IF Len(path) = 1 THEN desc_items
    ELSE NodeAt(desc_items, SubSeq(path, 1, Len(path) - 1)).items

\* The runtime entry emitted for the entry at `path`
EntryAt(path) ==
    emitted[CHOOSE k \in DOMAIN emitted :
                emitted[k].path = path /\ emitted[k].role = "own"]

SiblingChain ==
    \A k \in DOMAIN emitted :
        emitted[k].role = "own" =>
            LET path == emitted[k].path
                pos == path[Len(path)]
            IN IF pos < Len(SiblingsAt(path))
               THEN emitted[k].next_name =
                        EntryAt([path EXCEPT ![Len(path)] = pos + 1]).menu_name
               ELSE emitted[k].next_name = None

EnableResetExample ==
    (desc_items = <<BoolEnable, ActionReset>> /\ run = 1 /\ ~mapfile.exists) =>
        /\ Len(emitted) = 2
        /\ emitted[1].menu_name = MENU \o N_Enable
        /\ emitted[1].next_name = MENU \o N_Reset
        /\ emitted[2].menu_name = MENU \o N_Reset
        /\ emitted[2].next_name = None
        /\ emitted[1].eeprom_offset = 2
        /\ data[N_Enable] = [offset |-> 2, size |-> 1]
        /\ emitted[2].eeprom_offset = 65535
        /\ root = MENU \o N_Enable

\* C10: Sibling chain. After a completed traversal the next-link of every
\* runtime entry is the symbol under which the following sibling's runtime
\* entry is defined, the last sibling's next-link is null, and the root
\* symbol is the symbol of the first top-level entry; [Boolean 'Enable'
\* persistent, Action 'Reset'] on a new map gives Enable -> Reset -> null,
\* Enable at offset 2 with size 1, Reset at 0xFFFF, root Enable.
C10_SiblingChain ==
    (call_index > Len(Calls) /\ pc # "finish") =>
        /\ SiblingChain
        /\ root = EntryAt(<<1>>).menu_name
        /\ EnableResetExample

\* A completed compilation of a SubMenu nested three levels deep, followed by
\* a top-level sibling
C10_Witness ==
    /\ pc = "done"
    /\ desc_items = <<SubOuter, BoolEnable>>

----------------------------------------------------------------------------
\* C11

\* p is a proper prefix of q: the entry at q is below the entry at p
Below(p, q) == Len(p) < Len(q) /\ SubSeq(q, 1, Len(p)) = p

\* The symbol of the entry at `path`: the identifiers of the SubMenus it is
\* in, outermost first, then its own
SymbolAt(path) ==
    MENU \o Join([k \in 1..(Len(path) - 1) |->
                     generate_id(NodeAt(desc_items, SubSeq(path, 1, k)))])
         \o generate_id(NodeAt(desc_items, path))

\* The position in `emitted` of the runtime entry of the entry at `path`
OwnIndex(path) ==
    CHOOSE k \in DOMAIN emitted : emitted[k].path = path /\ emitted[k].role = "own"

\* When the back item of the SubMenu at emitted[k] is emitted, every child has
\* been emitted, in sibling order and under the nested namespace, with its
\* storage allocated, and nothing below the SubMenu comes later
ChildrenBeforeBack(k) ==
    LET path == emitted[k].path
        items == NodeAt(desc_items, path).items
    IN /\ \A i \in DOMAIN items :
            \E j \in 1..(k - 1) :
               /\ emitted[j].path = Append(path, i)
               /\ emitted[j].role = "own"
               /\ emitted[j].menu_name = SymbolAt(Append(path, i))
               /\ PersistentSerializable(items[i]) =>
                      emitted[j].eeprom_offset # NO_STORAGE
       /\ \A i1, i2 \in DOMAIN items :
            i1 < i2 => OwnIndex(Append(path, i1)) < OwnIndex(Append(path, i2))
       /\ \A j \in DOMAIN emitted : Below(path, emitted[j].path) => j < k
       /\ emitted[k].next_name = SymbolAt(Append(path, 1))
       /\ emitted[k].next_name = emitted[OwnIndex(Append(path, 1))].menu_name

\* The SubMenu's own entry comes right after its back item, refers to it as
\* its child and links to the SubMenu's next sibling
OwnAfterBack(k) ==
    LET path == emitted[k].path
        pos == path[Len(path)]
    IN /\ k > 1
       /\ emitted[k - 1].role = "back"
       /\ emitted[k - 1].path = path
       /\ emitted[k].child = emitted[k - 1].menu_name
       /\ emitted[k].child # None
       /\ emitted[k].menu_name = SymbolAt(path)
       /\ emitted[k].next_name =
            IF pos < Len(SiblingsAt(path))
            THEN SymbolAt([path EXCEPT ![Len(path)] = pos + 1])
            ELSE None

\* C11: SubMenu emission order. At every point of the traversal and at every
\* nesting depth, the back item of a SubMenu is emitted after all of the
\* SubMenu's children (in sibling order, under the nested namespace, storage
\* allocated) and links to the first child's symbol, and the SubMenu's own
\* entry is emitted right after the back item, with the back item's symbol
\* as its child reference and the SubMenu's next sibling as its next-link.
C11_SubMenuEmissionOrder ==
    \A k \in DOMAIN emitted :
        NodeAt(desc_items, emitted[k].path).type = "SubMenu" =>
            /\ emitted[k].role = "back" => ChildrenBeforeBack(k)
            /\ emitted[k].role = "own" => OwnAfterBack(k)

\* The traversal of a top-level entry followed by a SubMenu nested two levels
\* deep is over: the inner SubMenu's own entry follows its back item and
\* links to the inner SubMenu's next sibling
C11_Witness ==
    /\ call_index > Len(Calls)
    /\ desc_items = <<BoolEnable, SubOuter>>
    /\ \E k \in DOMAIN emitted :
         /\ emitted[k].path = <<2, 1>>
         /\ emitted[k].role = "own"
         /\ emitted[k - 1].role = "back"
         /\ emitted[k].child = emitted[k - 1].menu_name
         /\ emitted[k].next_name # None

----------------------------------------------------------------------------
\* C12

\* The run is over: __main__ has returned or an exception has ended it
RunOver == pc \in {"done", "failed"}

\* The mapping file holds the in-memory map
MapPersisted == mapfile.exists /\ mapfile.data = save(TheMap)

\* The map the run started from, while the run has not rewritten the file.
\* In a failed run a difference from it is what the run has allocated; after
\* a save the file holds the in-memory map and there is no difference.
MapAtStart == start_map(mapfile, capacity)

MapMutated == TheMap # MapAtStart

\* C12: Storage-map persistence. At the end of every compilation run that has
\* mutated the in-memory storage map, whether do_codegen returned or failed
\* partway (allocation error, callback conflict, emission error), the mapping
\* file holds the in-memory map as the run has mutated it.
C12_MapPersisted == (RunOver /\ MapMutated) => MapPersisted

----------------------------------------------------------------------------
\* C16

\* The step calls find_or_allocate_eeprom_space and the call raises
AllocationRaises ==
    /\ pc = "emit"
    /\ CallsFindOrAllocate(CurCall)
    /\ pc' = "failed"
    /\ err' \in {"AddressSpaceExhausted", "NoSpaceLeft", "ValueError"}

C16_Step == AllocationRaises => (data' = data /\ auto_index' = auto_index)

\* C16: A failing allocation leaves the allocator state unchanged. Whenever
\* auto_allocate or find_or_allocate_eeprom_space raises (address space
\* exhausted, no space left, persistent node of a non-serializable variant),
\* the mapping and the cursor are what they were before the call, also when
\* the key was in the map with another size.
C16_FailureLeavesMapUnchanged == [][C16_Step]_vars

----------------------------------------------------------------------------
\* C15

\* The bytes the runtime entry emitted[k] refers to
EmittedRange(k) ==
    emitted[k].eeprom_offset ..
        (emitted[k].eeprom_offset + get_serialized_size(Calls[k].node.type) - 1)

\* emitted[j] and emitted[k] are the entries of two persistent serializable
\* nodes with different symbols
DistinctPersistent(j, k) ==
    /\ j # k
    /\ emitted[j].role = "own" /\ emitted[k].role = "own"
    /\ PersistentSerializable(Calls[j].node)
    /\ PersistentSerializable(Calls[k].node)
    /\ emitted[j].menu_name # emitted[k].menu_name

\* The offset emitted for emitted[k] is the one the map records for its key
OffsetInMap(k) ==
    LET id_ == generate_id(Calls[k].node)
    IN id_ \in DOMAIN data /\ data[id_].offset = emitted[k].eeprom_offset

\* C15: Within one run, two distinct persistent serializable nodes whose
\* symbols differ are emitted with disjoint storage byte ranges, and at the
\* end of the run the offset emitted for each of them is the offset the map
\* records for its key.
C15_DisjointStorage ==
    \A j, k \in DOMAIN emitted :
        DistinctPersistent(j, k) =>
            /\ EmittedRange(j) \cap EmittedRange(k) = {}
            /\ pc = "done" => (OffsetInMap(j) /\ OffsetInMap(k))

\* The two parts of C15 on their own
C15_RangesDisjoint ==
    \A j, k \in DOMAIN emitted :
        DistinctPersistent(j, k) => EmittedRange(j) \cap EmittedRange(k) = {}

C15_OffsetsInMap ==
    \A j, k \in DOMAIN emitted :
        (DistinctPersistent(j, k) /\ pc = "done") =>
            (OffsetInMap(j) /\ OffsetInMap(k))

----------------------------------------------------------------------------
\* C14

\* A word with its first letter upper-cased and the rest as it is
FirstUpperRestKept(w) ==
    IF w = <<>> THEN <<>> ELSE <<to_upper(w[1])>> \o Tail(w)

\* The identifier as C14 derives it: the words between the runs of
\* non-alphanumeric characters, each with its first letter upper-cased and the
\* rest preserved, concatenated, or the override; then the suffix
DerivedId(node) ==
    LET words == re_split(node.name, <<>>, <<>>)
        id_ == IF node.id_ # None THEN node.id_
               ELSE Join([k \in DOMAIN words |-> FirstUpperRestKept(words[k])])
    IN id_ \o (IF node.id_suffix # None THEN node.id_suffix ELSE <<>>)

\* C14: Identifier derivation. The identifier under which an entry is emitted
\* and stored is, without an id override, the display name split on every run
\* of non-alphanumeric characters, each word with its first letter upper-cased
\* and the rest of its characters preserved ('my ledCount' gives
\* 'MyLedCount'), concatenated, with the suffix appended verbatim; with an
\* override it is the override followed by the suffix.
C14_IdentifierDerivation ==
    \A k \in DOMAIN emitted :
        LET node == Calls[k].node
        IN /\ generate_id(node) = DerivedId(node)
           /\ (emitted[k].role = "own" /\ Len(emitted[k].path) = 1) =>
                  emitted[k].menu_name = MENU \o DerivedId(node)
           /\ (emitted[k].role = "own" /\ PersistentSerializable(node)
                 /\ k = Len(emitted) /\ pc # "failed") =>
                  DerivedId(node) \in DOMAIN data

\* The same with str.capitalize() left out of the comparison: what holds of
\* the words' first letters, of the override and of the suffix
C14_ExceptRestOfWord ==
    \A k \in DOMAIN emitted :
        LET node == Calls[k].node
        IN [j \in DOMAIN generate_id(node) |-> to_lower(generate_id(node)[j])]
             = [j \in DOMAIN DerivedId(node) |-> to_lower(DerivedId(node)[j])]

----------------------------------------------------------------------------
\* C13

\* The paths of the entries of a list and of the lists below it
RECURSIVE PathsOf(_, _)
PathsOf(items, prefix) ==
    UNION {{Append(prefix, k)} \cup PathsOf(items[k].items, Append(prefix, k)) :
             k \in DOMAIN items}

\* The nodes the run has constructed, in the order of their construction
Constructed == SelectSeq(init_calls, LAMBDA c : c.valid)

\* Every entry of the descriptor, at any depth, is in `constructed`, once
AllConstructed(constructed) ==
    LET paths == PathsOf(desc_items, <<>>)
    IN /\ {constructed[k].path : k \in DOMAIN constructed} = paths
       /\ Len(constructed) = Cardinality(paths)

\* C13: Global index. Among the nodes constructed within one run, at any
\* nesting depth and of any variant, the global index is unique, the order of
\* the indices is the order of construction, and the indices are consecutive
\* integers; after a load that returned, these nodes are all the entries of
\* the descriptor; a construction that fails validation comes after all the
\* constructed nodes of its run and takes an index none of them has.
C13_GlobalIndex ==
    LET constructed == Constructed
    IN /\ \A j, k \in DOMAIN constructed :
            /\ j # k => constructed[j]._global_index # constructed[k]._global_index
            /\ j < k <=> constructed[j]._global_index < constructed[k]._global_index
       /\ \A k \in DOMAIN constructed :
            k > 1 => constructed[k]._global_index
                        = constructed[k - 1]._global_index + 1
       /\ pc \in {"emit", "finish", "save", "done"} => AllConstructed(constructed)
       /\ \A k \in DOMAIN init_calls :
            ~init_calls[k].valid =>
               /\ k = Len(init_calls)
               /\ \A j \in DOMAIN constructed :
                    constructed[j]._global_index # init_calls[k]._global_index

\* The load of a descriptor has failed in the second entry of a SubMenu, after
\* the SubMenu, its top-level sibling and its first entry were constructed
C13_Witness ==
    /\ pc = "failed"
    /\ desc_items = <<SubNoNameChild, BoolEnable>>
    /\ Len(Constructed) = 3
    /\ Constructed[3].path = <<1, 1>>
    /\ Len(init_calls) = 4
    /\ ~init_calls[4].valid

\* The load of a SubMenu nested two levels deep has returned
C13_WitnessNested ==
    /\ pc = "emit"
    /\ desc_items = <<SubOuter, BoolEnable>>
    /\ Len(Constructed) = 8
    /\ Constructed[8].path = <<1, 1, 3>>

====
